---------------------------- MODULE Spec2Model ----------------------------
(***************************************************************************)
(* A model of three parts of Splitgraph:                                   *)
(*                                                                         *)
(*   - the layered query of QueryingForeignDataWrapper                     *)
(*     (src/splitgraph/core/fdw_checkout.py): execute() and the row        *)
(*     stream of _run_select_from_staging();                               *)
(*   - the savepoint stack of SQLEngine (src/splitgraph/engine/__init__.py)*)
(*   - the process-wide current engine: get_engine() and switch_engine().  *)
(*                                                                         *)
(* The queried table is t(id, v): id is the primary key when has_pk holds, *)
(* otherwise the change key is the whole row.                              *)
(***************************************************************************)
EXTENDS Integers, Sequences, FiniteSets, Bags, TLC

\* ------------------------------------------------------------------ bounds
\* The longest diff chain, and the most change records of one diff of the
\* scenario chains.
MaxChain == 2
MaxChanges == 1

\* The keys and values of the tables of Spec.
Keys == {1, 2}
Values == {"a", "b"}
AllCols == {"id", "v"}
NoVal == "-"

\* sg_action_kind of a change record.
KindInsert == 0
KindDelete == 1
KindUpdate == 2

\* Object ids: the snapshot, the diffs (1..n, in commit order) and the staging
\* table, whose id get_random_object_id() draws apart from every object id.
SnapId == 0
StagingId == -1

VARIABLES
    has_pk,        \* whether the snapshot has a primary key (get_primary_keys)
    snap_rows,     \* contents of the snapshot object self.snap
    objects,       \* objects[k]: the change records of diff object k
    object_path,   \* the diff ids as get_image_object_path returned them
    diff_chain,    \* self.diff_chain
    quals,         \* execute's quals
    columns,       \* execute's columns, the set Multicorn passes
    column_list,   \* columns = list(columns) of execute
    pk_only_quals, \* execute's local of that name
    pc,            \* position in execute / in the row stream
    idx,           \* index of the diff the Step C loop is at
    staging,       \* contents of the staging table
    sel_table,     \* the table _run_select_from_staging reads
    drop_table,    \* its drop_table argument
    cursor,        \* rows the cursor has not returned yet
    cursor_open,
    yielded,       \* bag of the mappings yielded so far
    tables,        \* ids of the tables that exist in the meta schema
    txn_open,      \* whether the engine connection has an open transaction
    events,        \* log of the statements run and rows yielded
    admitA,        \* change keys Step A inserted into staging
    admitB,        \* change keys Step B inserted into staging
    filtered       \* change keys a qual filter deleted from staging

qvars == <<has_pk, snap_rows, objects, object_path, diff_chain, quals, columns,
           column_list,
           pk_only_quals, pc, idx, staging, sel_table, drop_table, cursor,
           cursor_open, yielded, tables, txn_open, events, admitA, admitB,
           filtered>>

\* The fields the query never assigns after construction.
qfixed == <<has_pk, snap_rows, objects, object_path, diff_chain>>

VARIABLES
    savepoint_stack,   \* SQLEngine._savepoint_stack: the names pushed
    stack_owner,       \* for each entry of the stack, the block that pushed it
    blocks,            \* the savepoint blocks that are active, outermost first
    block_parent,      \* block_parent[b]: the block enclosing b at its entry, or 0
    exc,               \* the exception that is propagating: none, db or other
    sql_log,           \* the savepoint statements run_sql was given, in order
    last_exit,         \* what the latest exit of a savepoint block did
    last_failed_enter  \* the stack around the latest SAVEPOINT that failed

svars == <<savepoint_stack, stack_owner, blocks, block_parent, exc, sql_log,
           last_exit, last_failed_enter>>

VARIABLES
    CONFIG,         \* splitgraph.config.CONFIG
    IN_FDW,         \* splitgraph.config.IN_FDW
    ENGINE,         \* _ENGINE: an engine name or an engine object
    ENGINES,        \* _ENGINES: engine name -> engine object
    switch_frames,  \* the active switch_engine blocks, outermost first
    constructed,    \* the names PostgresEngine was constructed for, in order
    last_get,       \* the latest get_engine call and what it returned
    last_switch     \* what the latest exit of a switch_engine block did

evars == <<CONFIG, IN_FDW, ENGINE, ENGINES, switch_frames, constructed, last_get,
           last_switch>>

VARIABLE
    fcall           \* the latest call of a pure function: its arguments and result

VARIABLES
    search_path,       \* the session's search_path
    path_on_rollback,  \* the search_path a rollback of the open transaction restores
    engine_autocommit, \* whether the engine commits every statement by itself
    run_pc,            \* position in run_sql_in: idle, set or ran
    run_call,          \* the run_sql_in call in progress
    run_count,         \* the run_sql_in calls made
    last_run           \* what the latest run_sql_in call that finished did

pvars == <<search_path, path_on_rollback, engine_autocommit, run_pc, run_call,
           run_count, last_run>>

vars == <<qvars, svars, evars, fcall, pvars>>

\* ------------------------------------------------------------ tables, keys
Rows(K, V) == [id : K, v : V]

\* get_change_key: the primary key, or the whole row when there is none.
ChangeKey(pk, r) == IF pk THEN <<r.id>> ELSE <<r.id, r.v>>

\* The change key taken to be every column although there is a primary key.
ChangeKeyColsAll(pk) == AllCols

ChangeKeyCols(pk) == IF pk THEN {"id"} ELSE AllCols

KeysOf(pk, T) == {ChangeKey(pk, r) : r \in T}

Strip(T) == {[id |-> r.id, v |-> r.v] : r \in T}

WithKeep(T, k) == {[id |-> r.id, v |-> r.v, keep |-> k] : r \in T}

\* __init__ without the reversal.
ReversedNot(s) == s

\* list(reversed(self.diff_chain)) of __init__.
Reversed(s) == [j \in 1..Len(s) |-> s[Len(s) + 1 - j]]

\* ----------------------------------------------------------- apply a diff
\* All DELETEs, then UPDATEs, then INSERTs, each by change key.  An inserted
\* row takes the column default of sg_meta_keep_pk, TRUE.
ApplyDiffObject(pk, T, D) ==
    LET dels == {ChangeKey(pk, c) : c \in {c \in D : c.kind = KindDelete}}
        upds == {c \in D : c.kind = KindUpdate}
        ins  == {c \in D : c.kind = KindInsert}
        afterDel == {r \in T : ChangeKey(pk, r) \notin dels}
        upd(r) == IF \E c \in upds : ChangeKey(pk, c) = ChangeKey(pk, r)
                  THEN LET c == CHOOSE c \in upds : ChangeKey(pk, c) = ChangeKey(pk, r)
                       IN  [r EXCEPT !.v = c.v]
                  ELSE r
        afterUpd == {upd(r) : r \in afterDel}
    IN  afterUpd \cup {[id |-> c.id, v |-> c.v, keep |-> TRUE] : c \in ins}

\* The table at the queried version: every diff of the chain applied in order
\* to the full snapshot (what a checkout builds).
RECURSIVE ApplyChain(_, _, _, _)
ApplyChain(pk, T, objs, chain) ==
    IF chain = <<>> THEN T
    ELSE ApplyChain(pk, ApplyDiffObject(pk, T, objs[Head(chain)]), objs, Tail(chain))

Materialize(pk, S, objs, chain) == Strip(ApplyChain(pk, WithKeep(S, TRUE), objs, chain))

\* ------------------------------------------------------------------ quals
\* A Multicorn qual on one value, and one on a list of values: the operator of
\* a list qual is the pair of the operator and a flag.
ScalarQual(f, op, val) ==
    [is_list_operator |-> FALSE, list_any_or_all |-> "NONE",
     field_name |-> f, operator |-> op, value |-> val]

ListQual(f, op, any_or_all, vals) ==
    [is_list_operator |-> TRUE, list_any_or_all |-> any_or_all,
     field_name |-> f, operator |-> <<op, any_or_all = "ANY">>, value |-> vals]

\* A single placeholder whatever the number of values.
PlaceholdersOne(k) == <<"%s">>

\* ','.join('%s' for _ in range(k)).
RECURSIVE Placeholders(_)
Placeholders(k) ==
    IF k = 0 THEN <<>>
    ELSE IF k = 1 THEN <<"%s">>
    ELSE <<"%s", ",">> \o Placeholders(k - 1)

\* _qual_to_pg: the clause of one qual, as its tokens, and its bound values.
QualToPg(qual) ==
    IF qual.is_list_operator
    THEN [sql  |-> <<qual.field_name, qual.operator[1],
                     IF qual.list_any_or_all = "ANY" THEN "ANY" ELSE "ALL", "(ARRAY[">>
                   \o Placeholders(Len(qual.value)) \o <<"])">>,
          vals |-> qual.value]
    ELSE [sql  |-> <<qual.field_name, qual.operator, "%s">>,
          vals |-> <<qual.value>>]

\* vals.extend(v) for each qual in turn.
RECURSIVE ExtendAll(_)
ExtendAll(vs) == IF vs = <<>> THEN <<>> ELSE Head(vs) \o ExtendAll(Tail(vs))

\* _quals_to_postgres: one clause per qual, joined with AND, and the flat list
\* of bound values.
QualsToPostgres(qs) ==
    [sql  |-> [j \in 1..Len(qs) |-> QualToPg(qs[j]).sql],
     vals |-> ExtendAll([j \in 1..Len(qs) |-> QualToPg(qs[j]).vals])]

CountPlaceholders(clause) == Cardinality({j \in 1..Len(clause) : clause[j] = "%s"})

Compare(a, op, b) == IF op = "=" THEN a = b ELSE a # b

\* Postgres evaluating one clause on row r with the values bound to its
\* placeholders.
EvalClause(r, clause, bound) ==
    IF clause[3] = "%s" THEN Compare(r[clause[1]], clause[2], bound[1])
    ELSE IF clause[3] = "ANY"
    THEN \E j \in 1..Len(bound) : Compare(r[clause[1]], clause[2], bound[j])
    ELSE \A j \in 1..Len(bound) : Compare(r[clause[1]], clause[2], bound[j])

\* Postgres evaluating the AND of the clauses on row r, the i-th placeholder
\* bound to the i-th value.
RECURSIVE EvalFrom(_, _, _)
EvalFrom(r, sql, vals) ==
    IF sql = <<>> THEN TRUE
    ELSE LET k == CountPlaceholders(Head(sql))
         IN  /\ EvalClause(r, Head(sql), SubSeq(vals, 1, k))
             /\ EvalFrom(r, Tail(sql), SubSeq(vals, k + 1, Len(vals)))

EvalWhere(r, q) == EvalFrom(r, q.sql, q.vals)

SatisfiesQuals(r, qs) == EvalWhere(r, QualsToPostgres(qs))

SelectWhere(T, qs) == {r \in T : SatisfiesQuals(r, qs)}

QualFields(qs) == {qs[j].field_name : j \in 1..Len(qs)}

\* ------------------------------------------------------------- projection
Project(r, cols) == [c \in cols |-> r[c]]

\* The list built from every column of the table, not from the requested ones.
OrderingsOfAllCols(S) ==
    {f \in [1..Cardinality(AllCols) -> AllCols] :
        \A i, j \in 1..Cardinality(AllCols) : i # j => f[i] # f[j]}

\* list(columns): the orders a set of columns can be listed in.
Orderings(S) ==
    {f \in [1..Cardinality(S) -> S] : \A i, j \in 1..Cardinality(S) : i # j => f[i] # f[j]}

\* The tuple the cursor returns for row r under SELECT lst[1], ..., lst[k].
CursorRow(r, lst) == [j \in 1..Len(lst) |-> r[lst[j]]]

\* {c: v for c, v in zip(columns, next(cur))}.
ZipColumns(lst, tup) ==
    [c \in {lst[j] : j \in 1..Len(lst)} |-> tup[CHOOSE j \in 1..Len(lst) : lst[j] = c]]

\* The bag SELECT cols FROM T.
ProjectBag(T, cols) ==
    LET P == {Project(r, cols) : r \in T}
    IN  [p \in P |-> Cardinality({r \in T : Project(r, cols) = p})]

\* The rows of bag B that satisfy the quals (the executor's recheck).
RecheckBag(B, qs) ==
    LET P == {p \in DOMAIN B : SatisfiesQuals(p, qs)}
    IN  [p \in P |-> B[p]]

\* ------------------------------------------------------------ Steps A, B, C
\* The INSERT without ON CONFLICT DO NOTHING taking effect: every new row is added.
InsertIgnoringConflicts(pk, T, new) == T \cup new

\* INSERT ... ON CONFLICT DO NOTHING: a new row whose primary key is already
\* in T is skipped; without a primary key nothing conflicts.
InsertOnConflictDoNothing(pk, T, new) ==
    T \cup {r \in new : ~(pk /\ \E t \in T : t.id = r.id)}

\* Step A left out: nothing is inserted.
StepAInsertNone(pk, T, S, D) == T

\* Step A marking its rows sg_meta_keep_pk = FALSE.
StepAInsertUnmarked(pk, T, S, D) ==
    T \cup {r \in WithKeep({r \in S : \E c \in D : /\ c.kind = KindUpdate
                                                  /\ ChangeKey(pk, c) = ChangeKey(pk, r)}, FALSE) :
                ~(pk /\ \E t \in T : t.id = r.id)}

\* One INSERT of Step A: the snapshot rows joined on the change key with the
\* UPDATE records of diff D, marked sg_meta_keep_pk = TRUE.
StepAInsert(pk, T, S, D) ==
    InsertOnConflictDoNothing(pk, T,
        WithKeep({r \in S : \E c \in D : /\ c.kind = KindUpdate
                                         /\ ChangeKey(pk, c) = ChangeKey(pk, r)}, TRUE))

RECURSIVE StepALoop(_, _, _, _, _)
StepALoop(pk, T, S, objs, chain) ==
    IF chain = <<>> THEN T
    ELSE StepALoop(pk, StepAInsert(pk, T, S, objs[Head(chain)]), S, objs, Tail(chain))

\* The INSERT of Step B: the snapshot rows that satisfy the quals (all of them
\* when there are no quals), marked sg_meta_keep_pk = FALSE.
StepBInsert(pk, T, S, qs) ==
    InsertOnConflictDoNothing(pk, T,
        WithKeep({r \in S : qs # <<>> => SatisfiesQuals(r, qs)}, FALSE))

\* A qual filter that ignores sg_meta_keep_pk.
ApplyQualFilterAll(T, qs) == {r \in T : SatisfiesQuals(r, qs)}

\* _apply_qual_filter: DELETE ... WHERE sg_meta_keep_pk = FALSE AND NOT (quals).
ApplyQualFilter(T, qs) == {r \in T : ~(r.keep = FALSE /\ ~SatisfiesQuals(r, qs))}

\* pk_only_quals computed with any() instead of all().
PkOnlyQualsAny(pk, qs) == \E j \in 1..Len(qs) : qs[j].field_name \in ChangeKeyCols(pk)

\* pk_only_quals = all(q.field_name in ri_cols for q in quals).
PkOnlyQuals(pk, qs) == \A j \in 1..Len(qs) : qs[j].field_name \in ChangeKeyCols(pk)

\* ------------------------------------------------------------------- Init
IdsOf(T) == {r.id : r \in T}

TablesOver(pk, K, V) ==
    IF pk THEN {T \in SUBSET Rows(K, V) : \A r1, r2 \in T : r1.id = r2.id => r1 = r2}
    ELSE SUBSET Rows(K, V)

\* The change records a commit on table T can hold.
ValidRecords(pk, T, K, V) ==
    IF pk
    THEN {[id |-> r.id, v |-> NoVal, kind |-> KindDelete] : r \in T}
         \cup {[id |-> r.id, v |-> x, kind |-> KindUpdate] : r \in T, x \in V}
         \cup {[id |-> k, v |-> x, kind |-> KindInsert] : k \in K \ IdsOf(T), x \in V}
    ELSE {[id |-> r.id, v |-> r.v, kind |-> KindDelete] : r \in T}
         \cup {[id |-> r.id, v |-> r.v, kind |-> KindInsert] : r \in Rows(K, V) \ T}

\* The diffs a commit on table T can produce: not empty, at most `most`
\* records, one record per change key.
DiffsOn(pk, T, K, V, most) ==
    {D \in SUBSET ValidRecords(pk, T, K, V) :
        /\ D # {}
        /\ Cardinality(D) <= most
        /\ \A c1, c2 \in D : ChangeKey(pk, c1) = ChangeKey(pk, c2) => c1 = c2}

\* The chains of at most n diffs committed one after the other on table T.
RECURSIVE ChainsOn(_, _, _, _, _, _)
ChainsOn(pk, T, K, V, most, n) ==
    IF n = 0 THEN {<<>>}
    ELSE {<<>>} \cup
         UNION {{<<D>> \o c : c \in ChainsOn(pk, Strip(ApplyDiffObject(pk, T, D)), K, V, most, n - 1)} :
                    D \in DiffsOn(pk, T, K, V, most)}

\* The qual lists execute is called with: none, one on the key, one on the
\* value, both (the keys and the values of the tables are interchangeable, so
\* one constant of each stands for all).
QualLists ==
    LET idq == ScalarQual("id", "=", 2)
        vq  == ScalarQual("v", "=", "a")
    IN  {<<>>, <<idq>>, <<vq>>, <<idq, vq>>}

ColumnSets == SUBSET AllCols \ {{}}

QueryInitOn(pks, snaps, K, V, most, n) ==
    /\ has_pk \in pks
    /\ snap_rows \in snaps
    /\ objects \in ChainsOn(has_pk, snap_rows, K, V, most, n)
    \* get_image_object_path lists the latest diff first; __init__ reverses it.
    /\ object_path = [k \in 1..Len(objects) |-> Len(objects) + 1 - k]
    /\ diff_chain = Reversed(object_path)
    /\ quals = <<>>
    /\ columns = {}
    /\ column_list = <<>>
    /\ pk_only_quals = FALSE
    /\ pc = "ready"
    /\ idx = 0
    /\ staging = {}
    /\ sel_table = SnapId
    /\ drop_table = FALSE
    /\ cursor = {}
    /\ cursor_open = FALSE
    /\ yielded = EmptyBag
    /\ tables = {SnapId} \cup {object_path[k] : k \in 1..Len(object_path)}
    /\ txn_open = FALSE
    /\ events = <<>>
    /\ admitA = {}
    /\ admitB = {}
    /\ filtered = {}

\* Every table over Keys and Values with every chain of at most MaxChain diffs.
QueryInit ==
    QueryInitOn({TRUE}, TablesOver(TRUE, Keys, Values), Keys, Values,
                Cardinality(Keys), MaxChain)

\* Every table over Keys and Values, with a primary key or without one, with
\* every chain of at most MaxChain diffs.
KeyInit ==
    \/ QueryInitOn({TRUE}, TablesOver(TRUE, Keys, Values), Keys, Values,
                   Cardinality(Keys), MaxChain)
    \/ QueryInitOn({FALSE}, TablesOver(FALSE, Keys, Values), Keys, Values,
                   Cardinality(Keys), MaxChain)

\* The table of the end-to-end scenarios, t(id PK, v) with rows (1,'a'),
\* (2,'b'), (3,'c'), followed by at most MaxChain commits of at most
\* MaxChanges changes each; ScenarioValues are the values the commits write.
ScenarioKeys == {1, 2, 3}
ScenarioValues == {"a", "z"}
Scenario1Table == {[id |-> 1, v |-> "a"], [id |-> 2, v |-> "b"], [id |-> 3, v |-> "c"]}

ScenarioInit ==
    QueryInitOn({TRUE}, {Scenario1Table}, ScenarioKeys, ScenarioValues,
                MaxChanges, MaxChain)

\* No query: an empty snapshot and no diff.
QueryIdleInit == QueryInitOn({TRUE}, {{}}, Keys, Values, 0, 0)

\* ---------------------------------------------------------------- execute
\* The fast path asking the stream to drop its table.
FastPathDropTableTrue == TRUE

\* drop_table of the stream the fast path returns.
FastPathDropTable == FALSE

\* execute up to pk_only_quals: the fast path returns the stream on the
\* snapshot, the slow path creates the empty staging table.
Execute(qs, cols) ==
    /\ pc = "ready"
    /\ quals' = qs
    /\ columns' = cols
    /\ column_list' \in Orderings(cols)
    /\ IF diff_chain = <<>>
       THEN /\ sel_table' = SnapId
            /\ drop_table' = FastPathDropTable
            /\ pc' = "gen_created"
            /\ UNCHANGED <<pk_only_quals, staging, tables, txn_open, events>>
       ELSE /\ staging' = {}
            /\ tables' = tables \cup {StagingId}
            /\ txn_open' = TRUE
            /\ events' = Append(events, <<"create", StagingId>>)
            /\ pk_only_quals' = PkOnlyQuals(has_pk, qs)
            /\ pc' = IF PkOnlyQuals(has_pk, qs) THEN "stepB" ELSE "stepA"
            /\ UNCHANGED <<sel_table, drop_table>>
    /\ UNCHANGED <<qfixed, svars, evars, fcall, pvars, idx, cursor, cursor_open, yielded, admitA,
                   admitB, filtered>>

\* Step 1 of execute: the loop over the whole chain.
StepA ==
    /\ pc = "stepA"
    /\ ~pk_only_quals
    /\ staging' = StepALoop(has_pk, staging, snap_rows, objects, diff_chain)
    /\ admitA' = KeysOf(has_pk, staging') \ KeysOf(has_pk, staging)
    /\ events' = Append(events, <<"stepA">>)
    /\ pc' = "stepB"
    /\ UNCHANGED <<qfixed, svars, evars, fcall, pvars, quals, columns, column_list,
                   pk_only_quals, idx, sel_table,
                   drop_table, cursor, cursor_open, yielded, tables, txn_open,
                   admitB, filtered>>

\* Step 2 of execute.
StepB ==
    /\ pc = "stepB"
    /\ staging' = StepBInsert(has_pk, staging, snap_rows, quals)
    /\ admitB' = KeysOf(has_pk, staging') \ KeysOf(has_pk, staging)
    /\ events' = Append(events, <<"stepB">>)
    /\ idx' = 1
    /\ pc' = IF Len(diff_chain) > 1 THEN "apply" ELSE "final"
    /\ UNCHANGED <<qfixed, svars, evars, fcall, pvars, quals, columns, column_list,
                   pk_only_quals, sel_table,
                   drop_table, cursor, cursor_open, yielded, tables, txn_open,
                   admitA, filtered>>

\* Where the Step 3 loop goes once it is done with the diff before index k.
AfterDiff(k) == IF k < Len(diff_chain) THEN "apply" ELSE "final"

\* Step 3 of execute, the loop over diff_chain[:-1]: apply one diff.
ApplyDiff ==
    /\ pc = "apply"
    /\ staging' = ApplyDiffObject(has_pk, staging, objects[diff_chain[idx]])
    /\ events' = Append(events, <<"apply", diff_chain[idx]>>)
    /\ IF quals # <<>>
       THEN pc' = "filter" /\ idx' = idx
       ELSE pc' = AfterDiff(idx + 1) /\ idx' = idx + 1
    /\ UNCHANGED <<qfixed, svars, evars, fcall, pvars, quals, columns, column_list,
                   pk_only_quals, sel_table,
                   drop_table, cursor, cursor_open, yielded, tables, txn_open,
                   admitA, admitB, filtered>>

\* Step 3 of execute: the qual filter after a diff of diff_chain[:-1].
QualFilter ==
    /\ pc = "filter"
    /\ staging' = ApplyQualFilter(staging, quals)
    /\ filtered' = filtered \cup (KeysOf(has_pk, staging) \ KeysOf(has_pk, staging'))
    /\ events' = Append(events, <<"filter", diff_chain[idx]>>)
    /\ idx' = idx + 1
    /\ pc' = AfterDiff(idx + 1)
    /\ UNCHANGED <<qfixed, svars, evars, fcall, pvars, quals, columns, column_list,
                   pk_only_quals, sel_table,
                   drop_table, cursor, cursor_open, yielded, tables, txn_open,
                   admitA, admitB>>

\* The final diff, diff_chain[-1], with no qual filter after it; execute then
\* returns the row stream on the staging table.
ApplyFinalDiff ==
    /\ pc = "final"
    /\ staging' = ApplyDiffObject(has_pk, staging, objects[diff_chain[Len(diff_chain)]])
    /\ events' = Append(events, <<"apply", diff_chain[Len(diff_chain)]>>)
    /\ sel_table' = StagingId
    /\ drop_table' = TRUE
    /\ pc' = "gen_created"
    /\ UNCHANGED <<qfixed, svars, evars, fcall, pvars, quals, columns, column_list,
                   pk_only_quals, idx, cursor,
                   cursor_open, yielded, tables, txn_open, admitA, admitB, filtered>>

\* ------------------------------------------------------------- row stream
\* The stream reading the staging table whatever table it was given.
TableRowsStaging(t) == staging

\* The rows of the table SELECT ... FROM schema.table reads.
TableRows(t) == IF t = SnapId THEN snap_rows ELSE staging

\* The cleanup with the rollback ahead of the drop.
CleanupStatementsRollbackFirst(drop, table) ==
    <<<<"close">>, <<"rollback">>>> \o (IF drop THEN <<<<"drop", table>>>> ELSE <<>>)

\* What the generator does once the cursor raises StopIteration: cur.close(),
\* delete_table if drop_table, rollback, in this order.
CleanupStatements(drop, table) ==
    <<<<"close">>>> \o (IF drop THEN <<<<"drop", table>>>> ELSE <<>>) \o <<<<"rollback">>>>

Cleanup ==
    /\ cursor_open' = FALSE
    /\ tables' = IF drop_table THEN tables \ {sel_table} ELSE tables
    /\ staging' = IF drop_table /\ sel_table = StagingId THEN {} ELSE staging
    /\ txn_open' = FALSE
    /\ events' = events \o CleanupStatements(drop_table, sel_table)
    /\ pc' = "done"
    /\ UNCHANGED yielded

\* One next() of the caller on the stream: the first one opens the cursor and
\* runs SELECT columns FROM table; a row is yielded, or the cursor is exhausted.
GenNext ==
    /\ pc \in {"gen_created", "streaming"}
    /\ LET cur == IF pc = "gen_created" THEN TableRows(sel_table) ELSE cursor
       IN  IF cur = {}
           THEN cursor' = cur /\ Cleanup
           ELSE \E r \in cur :
                    /\ cursor' = cur \ {r}
                    /\ cursor_open' = TRUE
                    /\ txn_open' = TRUE
                    /\ yielded' = yielded (+) SetToBag({ZipColumns(column_list,
                                                                CursorRow(r, column_list))})
                    /\ events' = Append(events, <<"yield">>)
                    /\ pc' = "streaming"
                    /\ UNCHANGED <<tables, staging>>
    /\ UNCHANGED <<qfixed, svars, evars, fcall, pvars, quals, columns, column_list,
                   pk_only_quals, idx, sel_table,
                   drop_table, admitA, admitB, filtered>>

\* The caller stops iterating: the stream is closed (GeneratorExit at the
\* yield, or a stream never started), which `except StopIteration` lets pass.
Cancel ==
    /\ pc \in {"gen_created", "streaming"}
    /\ pc' = "cancelled"
    /\ UNCHANGED <<qfixed, svars, evars, fcall, pvars, quals, columns, column_list,
                   pk_only_quals, idx, staging,
                   sel_table, drop_table, cursor, cursor_open, yielded, tables,
                   txn_open, events, admitA, admitB, filtered>>

QueryNext ==
    \/ \E qs \in QualLists, cols \in ColumnSets : Execute(qs, cols)
    \/ StepA
    \/ StepB
    \/ ApplyDiff
    \/ QualFilter
    \/ ApplyFinalDiff
    \/ GenNext
    \/ Cancel

\* ============================================================== savepoints
SavepointNames == {"a", "b"}

\* The savepoint blocks entered and the database errors raised in one run.
MaxBlocks == 3
MaxErrors == 2

NoExit == [id |-> 0]
NoEnter == [failed |-> FALSE]

Last(s) == s[Len(s)]
Front(s) == SubSeq(s, 1, Len(s) - 1)

SavepointInit ==
    /\ savepoint_stack = <<>>
    /\ stack_owner = <<>>
    /\ blocks = <<>>
    /\ block_parent = <<>>
    /\ exc = "none"
    /\ sql_log = <<>>
    /\ last_exit = NoExit
    /\ last_failed_enter = NoEnter

Statement(stmt, name, by, ok) == [stmt |-> stmt, name |-> name, by |-> by, ok |-> ok]

ErrorsRaised == Cardinality({j \in 1..Len(sql_log) : sql_log[j].stmt \in {"ROLLBACK TO", "ROLLBACK"}})

MarkRolledBack(bs, id) ==
    [j \in 1..Len(bs) |-> IF bs[j].id = id THEN [bs[j] EXCEPT !.rolled_back = TRUE] ELSE bs[j]]

\* What run_sql does with a database error before it raises it: the engine's
\* rollback, which inside a savepoint block pops the latest savepoint and
\* rolls back to it, and outside rolls the whole transaction back.
RollbackOnError(log) ==
    IF savepoint_stack # <<>>
    THEN /\ savepoint_stack' = Front(savepoint_stack)
         /\ stack_owner' = Front(stack_owner)
         /\ sql_log' = Append(log, Statement("ROLLBACK TO", Last(savepoint_stack), 0, TRUE))
         /\ blocks' = MarkRolledBack(blocks, Last(stack_owner))
    ELSE /\ sql_log' = Append(log, Statement("ROLLBACK", "", 0, TRUE))
         /\ UNCHANGED <<savepoint_stack, stack_owner, blocks>>

\* The entry entries of savepoint(name): run_sql(SAVEPOINT name), then the push.
\* ok is whether the SAVEPOINT statement succeeds.
SavepointEnter(name, ok) ==
    /\ exc = "none"
    /\ Len(block_parent) < MaxBlocks
    /\ ok \/ ErrorsRaised < MaxErrors
    /\ LET id == Len(block_parent) + 1
       IN  IF ok
           THEN /\ sql_log' = Append(sql_log, Statement("SAVEPOINT", name, id, TRUE))
                /\ savepoint_stack' = Append(savepoint_stack, name)
                /\ stack_owner' = Append(stack_owner, id)
                /\ blocks' = Append(blocks, [id |-> id, name |-> name,
                                             entry_stack |-> savepoint_stack,
                                             rolled_back |-> FALSE])
                /\ exc' = "none"
                /\ UNCHANGED last_failed_enter
           ELSE /\ RollbackOnError(Append(sql_log, Statement("SAVEPOINT", name, id, FALSE)))
                /\ exc' = IF blocks = <<>> THEN "none" ELSE "db"
                /\ last_failed_enter' = [failed |-> TRUE, before |-> savepoint_stack,
                                         after |-> savepoint_stack']
    /\ block_parent' = Append(block_parent, IF blocks = <<>> THEN 0 ELSE Last(blocks).id)
    /\ UNCHANGED <<last_exit, qvars, evars, fcall, pvars>>

\* A statement of the body of the innermost block fails with a database error.
BodyDbError ==
    /\ exc = "none"
    /\ blocks # <<>>
    /\ ErrorsRaised < MaxErrors
    /\ RollbackOnError(sql_log)
    /\ exc' = "db"
    /\ UNCHANGED <<block_parent, last_exit, last_failed_enter, qvars, evars, fcall, pvars>>

\* The body of the innermost block raises an exception that is no database error.
BodyRaise ==
    /\ exc = "none"
    /\ blocks # <<>>
    /\ exc' = "other"
    /\ UNCHANGED <<savepoint_stack, stack_owner, blocks, block_parent, sql_log,
                   last_exit, last_failed_enter, qvars, evars, fcall, pvars>>

\* The body of the innermost block catches the exception that is propagating.
BodyCatch ==
    /\ exc # "none"
    /\ blocks # <<>>
    /\ exc' = "none"
    /\ UNCHANGED <<savepoint_stack, stack_owner, blocks, block_parent, sql_log,
                   last_exit, last_failed_enter, qvars, evars, fcall, pvars>>

\* Whether the finally clause of a block called `name` pops and releases.
ReleasesOnExit(stack, name) == stack # <<>> /\ Last(stack) = name

\* The finally clause of savepoint(name) for the innermost block, on a normal
\* exit of its body (exc = "none") or on an exception leaving it.
SavepointExit ==
    /\ blocks # <<>>
    /\ LET b == Last(blocks)
           release == ReleasesOnExit(savepoint_stack, b.name)
       IN  /\ IF release
              THEN /\ savepoint_stack' = Front(savepoint_stack)
                   /\ stack_owner' = Front(stack_owner)
                   /\ sql_log' = Append(sql_log, Statement("RELEASE SAVEPOINT", b.name, b.id, TRUE))
              ELSE UNCHANGED <<savepoint_stack, stack_owner, sql_log>>
           /\ last_exit' = [id |-> b.id, name |-> b.name, exc |-> exc,
                            released |-> release,
                            released_owner |-> IF release THEN Last(stack_owner) ELSE 0,
                            rolled_back |-> b.rolled_back,
                            entry_stack |-> b.entry_stack,
                            stack_after |-> savepoint_stack',
                            owner_after |-> stack_owner']
    /\ blocks' = Front(blocks)
    /\ exc' = IF Len(blocks) = 1 THEN "none" ELSE exc
    /\ UNCHANGED <<block_parent, last_failed_enter, qvars, evars, fcall, pvars>>

SavepointNext ==
    \/ \E name \in SavepointNames, ok \in BOOLEAN : SavepointEnter(name, ok)
    \/ BodyDbError
    \/ BodyRaise
    \/ BodyCatch
    \/ SavepointExit

\* ========================================================= current engine
EngineNames == {"LOCAL", "remote"}

\* The deepest nesting of switch_engine blocks.
MaxSwitchDepth == 2

\* _ENGINE_SPECIFIC_CONFIG, in its order.
EngineSpecificConfig ==
    <<"SG_ENGINE_HOST", "SG_ENGINE_PORT", "SG_ENGINE_USER", "SG_ENGINE_PWD",
      "SG_ENGINE_DB_NAME", "SG_ENGINE_POSTGRES_DB_NAME", "SG_ENGINE_ADMIN_USER",
      "SG_ENGINE_ADMIN_PWD", "SG_ENGINE_FDW_HOST", "SG_ENGINE_FDW_PORT",
      "SG_ENGINE_OBJECT_PATH", "SG_NAMESPACE">>

\* _ENGINE_CONFIG_DEFAULTS.
EngineConfigDefaults ==
    [k \in {"SG_ENGINE_FDW_HOST", "SG_ENGINE_FDW_PORT"} |->
        IF k = "SG_ENGINE_FDW_HOST" THEN "SG_ENGINE_HOST" ELSE "SG_ENGINE_PORT"]

\* The loop with its two ifs in the other order: the default overrides the
\* key's own value.
RECURSIVE PrepareLoopDefaultLast(_, _, _)
PrepareLoopDefaultLast(config_dict, keys, result) ==
    IF keys = <<>> THEN result
    ELSE LET key == Head(keys)
             r1 == IF key \in DOMAIN config_dict
                   THEN [k \in DOMAIN result \cup {key} |->
                            IF k = key THEN config_dict[key] ELSE result[k]]
                   ELSE result
             r2 == IF key \in {"SG_ENGINE_FDW_HOST", "SG_ENGINE_FDW_PORT"}
                   THEN [k \in DOMAIN r1 \cup {key} |->
                            IF k = key
                            THEN config_dict[IF key = "SG_ENGINE_FDW_HOST"
                                             THEN "SG_ENGINE_HOST" ELSE "SG_ENGINE_PORT"]
                            ELSE r1[k]]
                   ELSE r1
         IN  PrepareLoopDefaultLast(config_dict, Tail(keys), r2)

\* _prepare_engine_config: the loop over the keys, each with its two ifs.
RECURSIVE PrepareLoop(_, _, _)
PrepareLoop(config_dict, keys, result) ==
    IF keys = <<>> THEN result
    ELSE LET key == Head(keys)
             r1 == IF key \in DOMAIN EngineConfigDefaults
                   THEN [k \in DOMAIN result \cup {key} |->
                            IF k = key THEN config_dict[EngineConfigDefaults[key]]
                            ELSE result[k]]
                   ELSE result
             r2 == IF key \in DOMAIN config_dict
                   THEN [k \in DOMAIN r1 \cup {key} |->
                            IF k = key THEN config_dict[key] ELSE r1[k]]
                   ELSE r1
         IN  PrepareLoop(config_dict, Tail(keys), r2)

PrepareEngineConfig(config_dict) == PrepareLoop(config_dict, EngineSpecificConfig, <<>>)

SetKey(d, key, val) == [k \in DOMAIN d \cup {key} |-> IF k = key THEN val ELSE d[k]]

\* The engine keys of one engine's configuration: host and port are set, the
\* FDW host and port are set or not.
ConfigDict(nm, fdw_host, fdw_port) ==
    LET base == [k \in {"SG_ENGINE_HOST", "SG_ENGINE_PORT", "SG_ENGINE_USER"} |->
                    IF k = "SG_ENGINE_HOST" THEN <<nm, "host">>
                    ELSE IF k = "SG_ENGINE_PORT" THEN <<nm, "port">>
                    ELSE <<nm, "user">>]
         d1 == IF fdw_host THEN SetKey(base, "SG_ENGINE_FDW_HOST", <<nm, "fdw_host">>) ELSE base
    IN  IF fdw_port THEN SetKey(d1, "SG_ENGINE_FDW_PORT", <<nm, "fdw_port">>) ELSE d1

\* The configurations: SG_ENGINE unset or naming the remote; the local engine
\* with its FDW host and port set, the remote one without.
Configs ==
    {[SG_ENGINE |-> e,
      local     |-> ConfigDict("LOCAL", TRUE, TRUE),
      remotes   |-> [n \in {"remote"} |-> ConfigDict(n, FALSE, FALSE)]] :
        e \in {"", "remote"}}

NameRef(nm) == [kind |-> "name", name |-> nm]
None == [kind |-> "none"]

EngineObject(oid, nm, conn_params, autocommit) ==
    [kind |-> "engine", oid |-> oid, name |-> nm, conn_params |-> conn_params,
     autocommit |-> autocommit]

\* Engines a caller built itself, outside get_engine.
CallerEngines == {EngineObject(0, "temp", ConfigDict("temp", FALSE, FALSE), FALSE)}

NoGet == [called |-> FALSE]
NoSwitch == [exited |-> FALSE]

\* _ENGINE = CONFIG["SG_ENGINE"] or "LOCAL".
DefaultEngine(config) == NameRef(IF config.SG_ENGINE # "" THEN config.SG_ENGINE ELSE "LOCAL")

EngineInitOn(configs) ==
    /\ CONFIG \in configs
    /\ IN_FDW \in BOOLEAN
    /\ ENGINE = DefaultEngine(CONFIG)
    /\ ENGINES = <<>>
    /\ switch_frames = <<>>
    /\ constructed = <<>>
    /\ last_get = NoGet
    /\ last_switch = NoSwitch

EngineInit == EngineInitOn(Configs)

EngineIdleInit ==
    /\ EngineInitOn({CHOOSE c \in Configs : c.SG_ENGINE = ""})
    /\ IN_FDW = FALSE

\* The connection parameters get_engine builds for the engine called nm.
ConnParams(nm, use_socket, fdw) ==
    LET p0 == IF nm = "LOCAL"
              THEN LET c == PrepareEngineConfig(CONFIG.local)
                   IN  IF use_socket
                       THEN SetKey(SetKey(c, "SG_ENGINE_HOST", None), "SG_ENGINE_PORT", None)
                       ELSE c
              ELSE PrepareEngineConfig(CONFIG.remotes[nm])
    IN  IF fdw
        THEN SetKey(SetKey(p0, "SG_ENGINE_HOST", p0["SG_ENGINE_FDW_HOST"]),
                    "SG_ENGINE_PORT", p0["SG_ENGINE_FDW_PORT"])
        ELSE p0

\* A cache that never has the name.
NeverRegistered(engines, nm) == FALSE

\* name in _ENGINES.
Registered(engines, nm) == nm \in DOMAIN engines

\* get_engine(name, use_socket, use_fdw_params, autocommit); name is None or
\* an engine name, use_fdw_params is "None", "True" or "False".
GetEngine(name, use_socket, use_fdw_params, autocommit) ==
    LET fdw == IF use_fdw_params = "None" THEN IN_FDW ELSE use_fdw_params = "True"
        call == [called |-> TRUE, name |-> name, use_socket |-> use_socket,
                 use_fdw_params |-> fdw, fdw_given |-> use_fdw_params]
    IN  /\ IF name = None /\ ENGINE.kind = "engine"
           THEN /\ last_get' = call @@ [result |-> ENGINE, built |-> FALSE]
                /\ UNCHANGED <<ENGINES, constructed>>
           ELSE LET nm == IF name = None THEN ENGINE.name ELSE name.name
                IN  IF ~Registered(ENGINES, nm)
                    THEN LET e == EngineObject(Len(constructed) + 1, nm,
                                               ConnParams(nm, use_socket, fdw), autocommit)
                         IN  /\ ENGINES' = SetKey(ENGINES, nm, e)
                             /\ constructed' = Append(constructed, nm)
                             /\ last_get' = call @@ [result |-> e, built |-> TRUE]
                    ELSE /\ last_get' = call @@ [result |-> ENGINES[nm], built |-> FALSE]
                         /\ UNCHANGED <<ENGINES, constructed>>
        /\ last_switch' = NoSwitch
        /\ UNCHANGED <<CONFIG, IN_FDW, ENGINE, switch_frames, qvars, svars, fcall, pvars>>

\* The engines a caller can hand to switch_engine.
KnownEngines == {ENGINES[n] : n \in DOMAIN ENGINES} \cup CallerEngines

\* switch_engine(engine) up to its yield.
SwitchEnter(engine) ==
    /\ Len(switch_frames) < MaxSwitchDepth
    /\ switch_frames' = Append(switch_frames,
                               [prev_engine |-> ENGINE, engine |-> engine,
                                at_entry |-> ENGINE])
    /\ ENGINE' = engine
    /\ last_get' = NoGet
    /\ last_switch' = NoSwitch
    /\ UNCHANGED <<CONFIG, IN_FDW, ENGINES, constructed, qvars, svars, fcall, pvars>>

\* The finally clause going back to the configured engine.
RestoredEngineDefault(frame) == DefaultEngine(CONFIG)

\* What the finally clause of switch_engine assigns to _ENGINE.
RestoredEngine(frame) == frame.prev_engine

\* The finally clause of the innermost switch_engine block; how is "normal"
\* or "exception".
SwitchExit(how) ==
    /\ switch_frames # <<>>
    /\ ENGINE' = RestoredEngine(Last(switch_frames))
    /\ switch_frames' = Front(switch_frames)
    /\ last_switch' = [exited |-> TRUE, how |-> how,
                       at_entry |-> Last(switch_frames).at_entry,
                       engine |-> Last(switch_frames).engine,
                       after |-> ENGINE']
    /\ last_get' = NoGet
    /\ UNCHANGED <<CONFIG, IN_FDW, ENGINES, constructed, qvars, svars, fcall, pvars>>

EngineNext ==
    \/ \E name \in {None} \cup {NameRef(n) : n \in EngineNames},
          use_socket \in BOOLEAN, use_fdw_params \in {"None", "True", "False"} :
            GetEngine(name, use_socket, use_fdw_params, FALSE)
    \/ \E engine \in KnownEngines : SwitchEnter(engine)
    \/ \E how \in {"normal", "exception"} : SwitchExit(how)

\* ============================================================= run_sql_in
\* The schemas run_sql_in is called with.
Schemas == {"s1", "s2"}

\* The run_sql_in calls of one run.
MaxCalls == 3

\* The search_path of a session nothing has set.
DefaultPath == "default"

NoRun == [finished |-> FALSE]

PathInitOn(autocommits) ==
    /\ search_path = DefaultPath
    /\ path_on_rollback = DefaultPath
    /\ engine_autocommit \in autocommits
    /\ run_pc = "idle"
    /\ run_call = NoRun
    /\ run_count = 0
    /\ last_run = NoRun

PathInit == PathInitOn(BOOLEAN)

PathIdleInit == PathInitOn({FALSE})

\* SET search_path TO schema (first statement of run_sql_in).
RunSqlInSetPath(schema) ==
    /\ run_pc = "idle"
    /\ run_count < MaxCalls
    /\ search_path' = schema
    /\ path_on_rollback' = IF engine_autocommit THEN search_path' ELSE path_on_rollback
    /\ run_call' = [schema |-> schema]
    /\ run_pc' = "set"
    /\ UNCHANGED <<engine_autocommit, run_count, last_run, qvars, svars, evars, fcall>>

\* The query of run_sql_in; ok is whether it succeeds.  On a database error
\* run_sql rolls the transaction back, which takes back every SET made in it
\* (under autocommit the SET is committed already), and raises: no statement
\* of run_sql_in follows.
RunSqlInQuery(ok) ==
    /\ run_pc = "set"
    /\ IF ok
       THEN /\ run_call' = [schema |-> run_call.schema, path_during |-> search_path]
            /\ run_pc' = "ran"
            /\ UNCHANGED <<search_path, path_on_rollback, run_count, last_run>>
       ELSE /\ search_path' = path_on_rollback
            /\ last_run' = [finished |-> TRUE, schema |-> run_call.schema, ok |-> FALSE,
                            path_during |-> search_path, path_after |-> search_path']
            /\ run_call' = NoRun
            /\ run_count' = run_count + 1
            /\ run_pc' = "idle"
            /\ UNCHANGED path_on_rollback
    /\ UNCHANGED <<engine_autocommit, qvars, svars, evars, fcall>>

\* SET search_path TO public (last statement of run_sql_in) and the return.
RunSqlInResetPath ==
    /\ run_pc = "ran"
    /\ search_path' = "public"
    /\ path_on_rollback' = IF engine_autocommit THEN search_path' ELSE path_on_rollback
    /\ last_run' = [finished |-> TRUE, schema |-> run_call.schema, ok |-> TRUE,
                    path_during |-> run_call.path_during, path_after |-> search_path']
    /\ run_call' = NoRun
    /\ run_count' = run_count + 1
    /\ run_pc' = "idle"
    /\ UNCHANGED <<engine_autocommit, qvars, svars, evars, fcall>>

\* commit() between two calls.
EngineCommit ==
    /\ run_pc = "idle"
    /\ path_on_rollback # search_path
    /\ path_on_rollback' = search_path
    /\ UNCHANGED <<search_path, engine_autocommit, run_pc, run_call, run_count, last_run,
                   qvars, svars, evars, fcall>>

\* rollback() between two calls.
EngineRollback ==
    /\ run_pc = "idle"
    /\ path_on_rollback # search_path
    /\ search_path' = path_on_rollback
    /\ UNCHANGED <<path_on_rollback, engine_autocommit, run_pc, run_call, run_count,
                   last_run, qvars, svars, evars, fcall>>

RunSqlInNext ==
    \/ \E schema \in Schemas : RunSqlInSetPath(schema)
    \/ \E ok \in BOOLEAN : RunSqlInQuery(ok)
    \/ RunSqlInResetPath
    \/ EngineCommit
    \/ EngineRollback

\* ========================================================= pure functions
NoCall == [fn |-> "none"]

CallInit == fcall = NoCall

\* The configurations _prepare_engine_config is given: the engine host and port
\* are set, every other engine key is set or not, and so is a key that is no
\* engine key.  The value of a key is tagged with the key.
PrepareKeys ==
    {EngineSpecificConfig[j] : j \in 1..Len(EngineSpecificConfig)} \cup {"SG_LOGLEVEL"}

PrepareConfigs ==
    {[k \in ks |-> <<k, "value">>] :
        ks \in {ks \in SUBSET PrepareKeys : {"SG_ENGINE_HOST", "SG_ENGINE_PORT"} \subseteq ks}}

\* One call _prepare_engine_config(config_dict).
PrepareEngineConfigCall(config_dict) ==
    /\ fcall = NoCall
    /\ fcall' = [fn |-> "_prepare_engine_config", config_dict |-> config_dict,
                 result |-> PrepareEngineConfig(config_dict)]
    /\ UNCHANGED <<qvars, svars, evars, pvars>>

\* ========================================================= specifications
Init == QueryInit /\ SavepointInit /\ EngineIdleInit /\ CallInit /\ PathIdleInit

Next == QueryNext

\* The layered query on every table over Keys and Values.
Spec == Init /\ [][Next]_vars

\* The layered query on the table of the end-to-end scenarios.
ScenarioSpecInit == ScenarioInit /\ SavepointInit /\ EngineIdleInit /\ CallInit /\ PathIdleInit

ScenarioSpec == ScenarioSpecInit /\ [][Next]_vars

\* Savepoint blocks, nested and one after the other.
SavepointSpecInit == QueryIdleInit /\ SavepointInit /\ EngineIdleInit /\ CallInit /\ PathIdleInit

SavepointSpec == SavepointSpecInit /\ [][SavepointNext]_vars

\* get_engine and switch_engine.
EngineSpecInit == QueryIdleInit /\ SavepointInit /\ EngineInit /\ CallInit /\ PathIdleInit

EngineSpec == EngineSpecInit /\ [][EngineNext]_vars

\* ========================================================= layered query
\* The table at the queried version.
Materialized == Materialize(has_pk, snap_rows, objects, diff_chain)

\* execute has returned the stream on the staging table (slow path).
SlowPathReturned == pc = "gen_created" /\ drop_table

\* The ids of the diffs applied to staging so far, in the order applied.
AppliedOrder ==
    LET ap == SelectSeq(events, LAMBDA e : e[1] = "apply")
    IN  [j \in 1..Len(ap) |-> ap[j][2]]

\* The ids of the diffs whose application a qual filter followed.
FilteredAfter ==
    {events[j][2] : j \in {j \in 1..(Len(events) - 1) :
                              events[j][1] = "apply" /\ events[j + 1][1] = "filter"}}

EventIdx(kind) == {j \in 1..Len(events) : events[j][1] = kind}

\* C1 as the claim states it: once the stream is exhausted, the bag of rows
\* execute streamed is SELECT columns FROM materialize(S, D1..Dn) WHERE quals.
C1_StreamIsSelectWhere ==
    pc = "done" =>
        yielded = ProjectBag(SelectWhere(Materialized, quals), columns)

\* C1, amended: execute does not filter its stream by the quals; once the
\* stream is exhausted, the streamed rows that satisfy the quals (the recheck
\* of the quals on the streamed rows, which needs the columns the quals name)
\* are the bag SELECT columns FROM materialize(S, D1..Dn) WHERE quals.
C1_RecheckedStreamIsSelectWhere ==
    (pc = "done" /\ QualFields(quals) \subseteq columns) =>
        RecheckBag(yielded, quals)
            = ProjectBag(SelectWhere(Materialized, quals), columns)

\* A chain of two diffs streamed to the end, with rows that satisfy the quals
\* and rows that do not among the streamed ones.
C1_Witness ==
    /\ pc = "done"
    /\ Len(diff_chain) = 2
    /\ QualFields(quals) \subseteq columns
    /\ RecheckBag(yielded, quals) # EmptyBag
    /\ RecheckBag(yielded, quals) # yielded

\* C2: on the slow path, once the final diff is applied, every row of the
\* materialized table that satisfies the quals is in the staging table with
\* its final column values.
C2_StagingHoldsSatisfyingRows ==
    SlowPathReturned => SelectWhere(Materialized, quals) \subseteq Strip(staging)

\* A chain of two diffs after which one satisfying row is a snapshot row that
\* failed the quals and was updated, and another was deleted by the first
\* diff and inserted again by the second.
C2_Witness ==
    /\ SlowPathReturned
    /\ Len(diff_chain) = 2
    /\ quals # <<>>
    /\ \E r \in SelectWhere(Materialized, quals) :
          /\ \E s \in snap_rows : s.id = r.id /\ ~SatisfiesQuals(s, quals)
          /\ \E k \in 1..2 : \E c \in objects[k] : c.kind = KindUpdate /\ c.id = r.id
    /\ \E r \in SelectWhere(Materialized, quals) :
          /\ \E c \in objects[diff_chain[1]] : c.kind = KindDelete /\ c.id = r.id
          /\ \E c \in objects[diff_chain[2]] : c.kind = KindInsert /\ c.id = r.id

\* C3 as the claim states it: on the fast path no staging table is created
\* and the stream is SELECT columns FROM S WHERE quals.
C3_FastPathSelectWhere ==
    diff_chain = <<>> =>
        /\ StagingId \notin tables
        /\ EventIdx("create") = {}
        /\ pc = "done" => yielded = ProjectBag(SelectWhere(snap_rows, quals), columns)

\* C3, amended: on the fast path no staging table is created and the stream
\* is SELECT columns FROM S, every snapshot row whether or not it satisfies
\* the quals.
C3_FastPathSelectAll ==
    diff_chain = <<>> =>
        /\ StagingId \notin tables
        /\ EventIdx("create") = {}
        /\ pc = "done" => yielded = ProjectBag(snap_rows, columns)

\* The fast path streamed to the end with a snapshot row that fails the quals.
C3_Witness ==
    /\ diff_chain = <<>>
    /\ pc = "done"
    /\ \E r \in snap_rows : ~SatisfiesQuals(r, quals)
    /\ \E r \in snap_rows : SatisfiesQuals(r, quals)

\* C4 as the claim states it: the diffs are applied in the order the
\* ObjectManager returned them, and the diff no qual filter follows is the
\* last one returned.
C4_AppliedInReturnedOrder ==
    SlowPathReturned =>
        /\ AppliedOrder = object_path
        /\ Last(object_path) \notin FilteredAfter

\* C4, amended: the diffs are applied in the reverse of the order the
\* ObjectManager returned them, each exactly once; the diff returned first is
\* applied last, and it alone has no qual filter after it when there are quals.
C4_AppliedInReverseOfReturnedOrder ==
    SlowPathReturned =>
        LET n == Len(object_path)
        IN  /\ Len(AppliedOrder) = n
            /\ \A j \in 1..n : AppliedOrder[j] = object_path[n + 1 - j]
            /\ \A k \in 1..n : Cardinality({j \in 1..n : AppliedOrder[j] = object_path[k]}) = 1
            /\ object_path[1] \notin FilteredAfter
            /\ quals # <<>> => \A k \in 2..n : object_path[k] \in FilteredAfter

\* execute has applied a chain of two diffs, with quals.
C4_Witness ==
    /\ SlowPathReturned
    /\ Len(object_path) = 2
    /\ quals # <<>>

\* C5: the cleanup statements run only when the stream is exhausted; then
\* every row of the cursor has been yielded, and the log ends with the close
\* of the cursor, the drop of the staging table (slow path only) and the
\* rollback, in this order, each exactly once and with every yield before
\* them; the table is gone and the transaction closed.
C5_CleanupAfterLastRow ==
    /\ pc # "done" => EventIdx("close") \cup EventIdx("drop") \cup EventIdx("rollback") = {}
    /\ pc = "done" =>
        LET n == Len(events)
            first == n - (IF drop_table THEN 2 ELSE 1)
        IN  /\ cursor = {}
            /\ Cardinality(EventIdx("yield")) = BagCardinality(yielded)
            /\ Cardinality(EventIdx("close")) = 1
            /\ Cardinality(EventIdx("rollback")) = 1
            /\ Cardinality(EventIdx("drop")) = IF drop_table THEN 1 ELSE 0
            /\ events[first] = <<"close">>
            /\ drop_table => events[n - 1] = <<"drop", StagingId>>
            /\ events[n] = <<"rollback">>
            /\ \A j \in EventIdx("yield") : j < first
            /\ ~cursor_open
            /\ ~txn_open
            /\ drop_table => StagingId \notin tables
            /\ ~drop_table => tables = {SnapId}

\* A slow-path stream of two rows consumed to the end.
C5_Witness ==
    /\ pc = "done"
    /\ drop_table
    /\ BagCardinality(yielded) = 2

\* C6 as the claim states it: a cancelled stream leaves no staging table and
\* no open transaction.
C6_CancelReleasesStaging ==
    pc = "cancelled" => StagingId \notin tables /\ ~txn_open

\* The scenario "update shifts out of predicate": the scenario table, one diff
\* that updates row 1 to v = 'z', the query WHERE v = 'a' (the columns handed
\* to execute are id and the column of the qual), streamed to the end.
UpdateShiftsOut ==
    /\ snap_rows = Scenario1Table
    /\ Len(diff_chain) = 1
    /\ objects[diff_chain[1]] = {[id |-> 1, v |-> "z", kind |-> KindUpdate]}
    /\ quals = <<ScalarQual("v", "=", "a")>>
    /\ columns = AllCols
    /\ pc = "done"

\* C7 as the claim states it: in the scenario the query returns no row, Step
\* B having admitted row 1 and a qual filter of Step C having removed it.
C7_StepBAdmitsStepCRemoves ==
    UpdateShiftsOut =>
        /\ RecheckBag(yielded, quals) = EmptyBag
        /\ <<1>> \in admitB
        /\ <<1>> \in filtered

\* C7, amended: in the scenario Step A admits row 1 (its key is updated by the
\* diff), Step B's insert of row 1 conflicts and adds nothing, no qual filter
\* runs on a chain of one diff, and execute streams row 1 as (1, 'z'); the
\* query returns no row only once the quals are rechecked on the stream.
C7_StepAAdmitsRecheckRemoves ==
    UpdateShiftsOut =>
        /\ RecheckBag(yielded, quals) = EmptyBag
        /\ admitA = {<<1>>}
        /\ admitB = {}
        /\ filtered = {}
        /\ EventIdx("filter") = {}
        /\ yielded = SetToBag({[id |-> 1, v |-> "z"]})

C7_Witness == UpdateShiftsOut /\ EventIdx("stepA") # {} /\ EventIdx("stepB") # {}

\* ============================================================= savepoints
\* The statements of the log block `by` issued that succeeded.
LogIdx(stmt, by) ==
    {j \in 1..Len(sql_log) : sql_log[j].stmt = stmt /\ sql_log[j].by = by /\ sql_log[j].ok}

\* Whether block x encloses block y.
RECURSIVE Encloses(_, _)
Encloses(x, y) ==
    /\ y # 0
    /\ block_parent[y] # 0
    /\ (block_parent[y] = x \/ Encloses(x, block_parent[y]))

\* C8 as the claim states it: a block that exited normally and whose savepoint
\* was not rolled back issued SAVEPOINT and then RELEASE SAVEPOINT, once each,
\* and left the stack as it was at entry; no block is released before a block
\* nested in it; a SAVEPOINT that fails pushes nothing.
C8_NormalExitReleases ==
    /\ (last_exit.id # 0 /\ last_exit.exc = "none" /\ ~last_exit.rolled_back) =>
          /\ Cardinality(LogIdx("SAVEPOINT", last_exit.id)) = 1
          /\ Cardinality(LogIdx("RELEASE SAVEPOINT", last_exit.id)) = 1
          /\ \A p \in LogIdx("SAVEPOINT", last_exit.id),
                q \in LogIdx("RELEASE SAVEPOINT", last_exit.id) : p < q
          /\ last_exit.stack_after = last_exit.entry_stack
    /\ \A p, q \in 1..Len(sql_log) :
          (/\ p < q
           /\ sql_log[p].stmt = "RELEASE SAVEPOINT"
           /\ sql_log[q].stmt = "RELEASE SAVEPOINT")
              => ~Encloses(sql_log[p].by, sql_log[q].by)
    /\ last_failed_enter.failed =>
          /\ Len(last_failed_enter.after) <= Len(last_failed_enter.before)
          /\ last_failed_enter.after
                = SubSeq(last_failed_enter.before, 1, Len(last_failed_enter.after))

\* C9 as the claim states it: once a block has exited, the entry it pushed is
\* not on the stack, and it issued RELEASE SAVEPOINT exactly when its savepoint
\* was not rolled back to.
C9_ExitRemovesOwnEntry ==
    last_exit.id # 0 =>
        /\ \A j \in 1..Len(last_exit.owner_after) : last_exit.owner_after[j] # last_exit.id
        /\ last_exit.released <=> ~last_exit.rolled_back

\* ========================================================= current engine
\* C10: the current engine is the engine of the innermost active switch_engine
\* block, or the configured one when there is none; inside a block get_engine
\* with no name returns that block's engine; the exit of a block, normal or by
\* exception, leaves the current engine what it was at the block's entry.
C10_SwitchEngineScoped ==
    /\ ENGINE = IF switch_frames = <<>> THEN DefaultEngine(CONFIG)
                ELSE Last(switch_frames).engine
    /\ (last_get.called /\ last_get.name = None /\ switch_frames # <<>>) =>
          last_get.result = Last(switch_frames).engine
    /\ last_switch.exited =>
          /\ last_switch.after = last_switch.at_entry
          /\ ENGINE = last_switch.at_entry

\* A block nested in another one, switched to a different engine, has exited
\* by exception.
C10_Witness ==
    /\ last_switch.exited
    /\ last_switch.how = "exception"
    /\ Len(switch_frames) = 1
    /\ last_switch.engine # last_switch.at_entry
    /\ last_switch.at_entry # DefaultEngine(CONFIG)

\* ================================================= _prepare_engine_config
PrepareSpecInit == QueryIdleInit /\ SavepointInit /\ EngineIdleInit /\ CallInit /\ PathIdleInit

PrepareNext == \E config_dict \in PrepareConfigs : PrepareEngineConfigCall(config_dict)

PrepareSpec == PrepareSpecInit /\ [][PrepareNext]_vars

EngineConfigOf(nm) == IF nm = "LOCAL" THEN CONFIG.local ELSE CONFIG.remotes[nm]

\* C12 as the claim states it: whatever get_engine calls came before, a call
\* get_engine(name, use_fdw_params=True) returns an engine connected to the FDW
\* host and port of that engine's configuration, and one with
\* use_fdw_params=False an engine connected to its engine host and port.
C12_GetEngineHonoursFdwParams ==
    (/\ last_get.called
     /\ last_get.name # None
     /\ ~last_get.use_socket
     /\ last_get.fdw_given \in {"True", "False"}) =>
        LET p == PrepareEngineConfig(EngineConfigOf(last_get.name.name))
            r == last_get.result.conn_params
        IN  IF last_get.fdw_given = "True"
            THEN /\ r["SG_ENGINE_HOST"] = p["SG_ENGINE_FDW_HOST"]
                 /\ r["SG_ENGINE_PORT"] = p["SG_ENGINE_FDW_PORT"]
            ELSE /\ r["SG_ENGINE_HOST"] = p["SG_ENGINE_HOST"]
                 /\ r["SG_ENGINE_PORT"] = p["SG_ENGINE_PORT"]

\* ============================================================= row stream
\* The rows of the table the stream was opened on.
StreamedTable == IF sel_table = SnapId THEN snap_rows ELSE Strip(staging)

\* The bag of the mappings column name -> value of the rows of T.
MappingsOf(T) ==
    LET M == {[c \in columns |-> r[c]] : r \in T}
    IN  [m \in M |-> Cardinality({r \in T : [c \in columns |-> r[c]] = m})]

\* C13: the column list is an order of the requested columns fixed at the
\* start of execute; every row the stream yields is one row taken off the
\* cursor, as the mapping of each requested column to that row's value; while
\* streaming, the rows yielded and the rows left in the cursor are together
\* the rows of the table, each once; the stream ends when, and only when, no
\* row is left, and yields nothing when it ends.
C13_RowStream ==
    [][/\ pc # "ready" =>
            /\ column_list' = column_list
            /\ {column_list[j] : j \in 1..Len(column_list)} = columns
            /\ Len(column_list) = Cardinality(columns)
       /\ pc' = "streaming" =>
            LET cur == IF pc = "gen_created" THEN StreamedTable ELSE Strip(cursor)
            IN  \E r \in cur :
                    /\ Strip(cursor') = cur \ {r}
                    /\ yielded' = yielded (+) SetToBag({[c \in columns |-> r[c]]})
       /\ pc = "streaming" =>
            yielded (+) MappingsOf(Strip(cursor)) = MappingsOf(StreamedTable)
       /\ pc' = "done" =>
            /\ yielded' = yielded
            /\ pc = "streaming" => cursor = {}
            /\ pc = "gen_created" => StreamedTable = {}
       /\ (pc \in {"gen_created", "streaming"} /\ pc' \notin {"done", "cancelled"}) =>
            pc' = "streaming"
      ]_vars

\* A stream of two rows with two columns, listed v first, consumed to the end.
C13_Witness ==
    /\ pc = "done"
    /\ column_list = <<"v", "id">>
    /\ BagCardinality(yielded) = 2
    /\ drop_table

\* ============================================================ frame effect
\* The ids of the objects of the chain: the snapshot and the diffs.
ChainObjectIds == {SnapId} \cup {object_path[k] : k \in 1..Len(object_path)}

\* C14: no step of execute or of its row stream changes the contents of the
\* snapshot or of a diff object, or the set of the tables other than the
\* staging table; every table created or dropped is the staging table; every
\* object of the chain exists in every state; the staging table's id is not
\* the id of an object of the chain; the fast path creates no table.
C14_OnlyStagingIsTouched ==
    [][/\ snap_rows' = snap_rows
       /\ objects' = objects
       /\ tables' \ {StagingId} = tables \ {StagingId}
       /\ ChainObjectIds \subseteq tables
       /\ ChainObjectIds \subseteq tables'
       /\ StagingId \notin ChainObjectIds
       /\ \A j \in 1..Len(events') :
              events'[j][1] \in {"create", "drop"} => events'[j][2] = StagingId
       /\ diff_chain = <<>> => (tables' = tables /\ staging' = staging)
      ]_vars

\* The slow path on a chain of two diffs with quals, streamed to the end: the
\* staging table was created, written by both steps, both diffs and the qual
\* filter, and dropped.
C14_Witness ==
    /\ pc = "done"
    /\ drop_table
    /\ Len(diff_chain) = 2
    /\ EventIdx("stepA") # {}
    /\ EventIdx("filter") # {}
    /\ EventIdx("drop") # {}

\* ============================================================ Steps A and B
\* Steps A and B are done and no diff has been applied yet.
AfterStepsAB == EventIdx("stepB") # {} /\ EventIdx("apply") = {}

\* Whether the change key of row r is that of an UPDATE record of some diff.
UpdatedInChain(r) ==
    \E k \in 1..Len(diff_chain) : \E c \in objects[diff_chain[k]] :
        c.kind = KindUpdate /\ ChangeKey(has_pk, c) = ChangeKey(has_pk, r)

\* C15: after Steps A and B and before any diff is applied, staging has at
\* most one row per change key; every staged row is a snapshot row; a staged
\* row is marked TRUE exactly when Step A ran and an UPDATE record of some diff
\* has its change key; every row marked FALSE satisfies the quals; a snapshot
\* row both steps select is staged once, marked TRUE.
C15_StagingAfterStepsAB ==
    AfterStepsAB =>
        /\ \A r1, r2 \in staging :
              ChangeKey(has_pk, r1) = ChangeKey(has_pk, r2) => r1 = r2
        /\ Strip(staging) \subseteq snap_rows
        /\ \A r \in staging :
              r.keep <=> (EventIdx("stepA") # {} /\ UpdatedInChain(r))
        /\ \A r \in staging : ~r.keep => SatisfiesQuals(r, quals)
        /\ \A r \in snap_rows :
              (EventIdx("stepA") # {} /\ UpdatedInChain(r) /\ SatisfiesQuals(r, quals)) =>
                  /\ [id |-> r.id, v |-> r.v, keep |-> TRUE] \in staging
                  /\ [id |-> r.id, v |-> r.v, keep |-> FALSE] \notin staging

\* Steps A and B have run, one snapshot row was selected by both, another one
\* by Step B only.
C15_Witness ==
    /\ AfterStepsAB
    /\ EventIdx("stepA") # {}
    /\ \E r \in snap_rows : UpdatedInChain(r) /\ SatisfiesQuals(r, quals)
    /\ \E r \in staging : ~r.keep

\* ============================================================== qual filter
\* The final diff has been applied.
FinalDiffApplied ==
    diff_chain # <<>> /\ \E j \in EventIdx("apply") : events[j][2] = Last(diff_chain)

\* C16: a qual filter runs right after the application of a diff that is not
\* the final one; it deletes nothing but rows marked FALSE that fail the
\* quals, and leaves no such row; with quals, a filter follows every diff but
\* the final one; once the final diff is applied no filter runs and execute
\* returns.
C16_QualFilter ==
    [][/\ (Len(events') > Len(events) /\ Last(events')[1] = "filter") =>
            /\ \A r \in staging' : r.keep \/ SatisfiesQuals(r, quals)
            /\ staging' \subseteq staging
            /\ \A r \in staging \ staging' : ~r.keep /\ ~SatisfiesQuals(r, quals)
            /\ Last(events) = <<"apply", Last(events')[2]>>
            /\ Last(events')[2] # Last(diff_chain)
       /\ (Len(events') > Len(events) /\ Last(events')[1] = "apply") =>
            IF Last(events')[2] = Last(diff_chain)
            THEN pc' = "gen_created"
            ELSE quals # <<>> => pc' = "filter"
       /\ pc = "filter" => (Len(events') > Len(events) /\ Last(events')[1] = "filter")
       /\ FinalDiffApplied =>
            (Len(events') > Len(events) => Last(events')[1] # "filter")
      ]_vars

\* A qual filter has just run on a staging table that holds a row marked TRUE
\* that fails the quals and a row marked FALSE.
C16_Witness ==
    /\ events # <<>>
    /\ Last(events)[1] = "filter"
    /\ \E r \in staging : r.keep /\ ~SatisfiesQuals(r, quals)
    /\ \E r \in staging : ~r.keep

\* ================================================================== Step A
\* The layered query on tables with and without a primary key.
KeySpecInit == KeyInit /\ SavepointInit /\ EngineIdleInit /\ CallInit /\ PathIdleInit

KeySpec == KeySpecInit /\ [][Next]_vars

\* Whether some qual names a column outside the change key: outside the
\* primary key, or outside all the columns when there is no primary key.
SomeQualOutsideChangeKey ==
    \E j \in 1..Len(quals) :
        quals[j].field_name \notin (IF has_pk THEN {"id"} ELSE {"id", "v"})

\* C17: on the slow path Step A runs exactly when some qual names a column
\* outside the change key; when none does (no quals included) Step A is
\* skipped and the staging table after the final diff still holds every row
\* of the materialized table that satisfies the quals, with its final values.
C17_StepAIffQualOutsideChangeKey ==
    /\ (diff_chain # <<>> /\ pc \notin {"ready", "stepA"}) =>
          (EventIdx("stepA") # {} <=> SomeQualOutsideChangeKey)
    /\ pc = "stepA" => SomeQualOutsideChangeKey
    /\ (SlowPathReturned /\ ~SomeQualOutsideChangeKey) =>
          /\ EventIdx("stepA") = {}
          /\ admitA = {}
          /\ SelectWhere(Materialized, quals) \subseteq Strip(staging)

\* A table without a primary key queried by value through a chain of two
\* diffs: Step A was skipped and a row that satisfies the quals, inserted by a
\* diff, is in the result.
C17_Witness ==
    /\ SlowPathReturned
    /\ ~has_pk
    /\ Len(diff_chain) = 2
    /\ "v" \in QualFields(quals)
    /\ EventIdx("stepA") = {}
    /\ \E r \in SelectWhere(Materialized, quals) : r \notin snap_rows


\* ====================================================== _quals_to_postgres
MaxQuals == 2

MaxListLen == 2

\* The quals of the calls: scalar quals on either column, and list quals on
\* the key with up to MaxListLen values.
ScalarQuals ==
    {ScalarQual("id", op, k) : op \in {"=", "<>"}, k \in Keys}
        \cup {ScalarQual("v", "=", x) : x \in Values}

ValueLists == UNION {[1..n -> Keys] : n \in 0..MaxListLen}

ListQuals ==
    {ListQual("id", op, flag, vs) : op \in {"=", "<>"}, flag \in {"ANY", "ALL"}, vs \in ValueLists}

QualInputs == UNION {[1..n -> ScalarQuals \cup ListQuals] : n \in 0..MaxQuals}

QualsToPostgresCall(qs) ==
    /\ fcall = NoCall
    /\ fcall' = [fn |-> "_quals_to_postgres", quals |-> qs, result |-> QualsToPostgres(qs)]
    /\ UNCHANGED <<qvars, svars, evars, pvars>>

QualsSpecInit == QueryIdleInit /\ SavepointInit /\ EngineIdleInit /\ CallInit /\ PathIdleInit

QualsNext == \E qs \in QualInputs : QualsToPostgresCall(qs)

QualsSpec == QualsSpecInit /\ [][QualsNext]_vars

\* The number of values the quals before the j-th one contribute.
RECURSIVE ValuesBefore(_, _)
ValuesBefore(qs, j) ==
    IF j = 1 THEN 0
    ELSE ValuesBefore(qs, j - 1)
             + (IF qs[j - 1].is_list_operator THEN Len(qs[j - 1].value) ELSE 1)

\* The positions of the placeholders of a clause, left to right.
PlaceholderPositions(clause) == {p \in 1..Len(clause) : clause[p] = "%s"}

\* C18: _quals_to_postgres yields one clause per qual, in input order, and one
\* flat list of values: the clause of a scalar qual is its field, its operator
\* and exactly one placeholder, bound to its value; the clause of a list qual
\* with k values is its field, its operator, ANY or ALL according to its flag
\* and exactly k placeholders inside the array, bound to its k values in
\* order; the placeholders are as many as the values, and the i-th placeholder
\* of the whole condition binds the i-th value.
C18_QualsToPostgres ==
    fcall.fn = "_quals_to_postgres" =>
        LET qs == fcall.quals
            sql == fcall.result.sql
            vals == fcall.result.vals
            total == ValuesBefore(qs, Len(qs) + 1)
        IN  /\ Len(sql) = Len(qs)
            /\ Len(vals) = total
            /\ \A j \in 1..Len(qs) :
                  LET q == qs[j]
                      cl == sql[j]
                      off == ValuesBefore(qs, j)
                      n == CountPlaceholders(cl)
                  IN  /\ cl[1] = q.field_name
                      /\ off + n <= Len(vals)
                      /\ IF q.is_list_operator
                         THEN /\ cl[2] = q.operator[1]
                              /\ cl[3] = q.list_any_or_all
                              /\ cl[4] = "(ARRAY[" /\ cl[Len(cl)] = "])"
                              /\ PlaceholderPositions(cl) \subseteq 5..(Len(cl) - 1)
                              /\ n = Len(q.value)
                              /\ \A i \in 1..n : vals[off + i] = q.value[i]
                         ELSE /\ cl[2] = q.operator
                              /\ n = 1
                              /\ vals[off + 1] = q.value

\* A call on a scalar qual followed by a list qual of two different values
\* under ALL.
C18_Witness ==
    /\ fcall.fn = "_quals_to_postgres"
    /\ Len(fcall.quals) = 2
    /\ ~fcall.quals[1].is_list_operator
    /\ fcall.quals[2].is_list_operator
    /\ fcall.quals[2].list_any_or_all = "ALL"
    /\ Len(fcall.quals[2].value) = 2
    /\ fcall.quals[2].value[1] # fcall.quals[2].value[2]
    /\ Len(fcall.result.vals) = 3

\* ================================================ staging after the final diff
\* The final diff of the chain has been applied to a staging table that still
\* exists.
StagingAfterFinalDiff == FinalDiffApplied /\ StagingId \in tables

\* C19: on the slow path, once the final diff has been applied, every row of
\* the staging table (without sg_meta_keep_pk) is a row of the table
\* materialized at the queried version, with its final values, so no row a
\* diff deleted and no row with the values it had before an update is in
\* staging; the staging rows that satisfy the quals are exactly the rows of
\* the materialized table that satisfy them, and once the stream is exhausted
\* the streamed rows that satisfy the quals are those rows projected on the
\* columns.
C19_StagingIsMaterializedRows ==
    /\ StagingAfterFinalDiff =>
          /\ Strip(staging) \subseteq Materialized
          /\ SelectWhere(Strip(staging), quals) = SelectWhere(Materialized, quals)
    /\ (pc = "done" /\ drop_table /\ QualFields(quals) \subseteq columns) =>
          RecheckBag(yielded, quals)
              = ProjectBag(SelectWhere(Materialized, quals), columns)

\* A chain of two diffs where the first one deletes a row of the snapshot that
\* satisfies the quals and updates another one, applied to the end: staging
\* holds a row that fails the quals and misses a row of the materialized table.
C19_Witness ==
    /\ StagingAfterFinalDiff
    /\ Len(diff_chain) = 2
    /\ quals # <<>>
    /\ \E r \in snap_rows : SatisfiesQuals(r, quals) /\ r \notin Materialized
    /\ \E r \in staging : r.keep /\ [id |-> r.id, v |-> r.v] \notin snap_rows
    /\ \E r \in staging : ~SatisfiesQuals(r, quals)
    /\ Strip(staging) # Materialized

\* ======================================================== engine registry
\* C20: get_engine constructs at most one engine per name and registers it
\* under that name for good; get_engine(name) returns the engine registered
\* under the name; get_engine() returns the engine of the innermost active
\* switch_engine block or, outside any block, the engine registered under the
\* configured default name; an engine once registered stays the engine of its
\* name, hence every call for the name returns the same instance.
C20_OneEnginePerName ==
    /\ [](/\ \A i, j \in 1..Len(constructed) : i # j => constructed[i] # constructed[j]
          /\ \A n \in DOMAIN ENGINES :
                /\ ENGINES[n].name = n
                /\ ENGINES[n].oid \in 1..Len(constructed)
                /\ constructed[ENGINES[n].oid] = n
          /\ last_get.called =>
                IF last_get.name # None
                THEN /\ last_get.name.name \in DOMAIN ENGINES
                     /\ last_get.result = ENGINES[last_get.name.name]
                ELSE IF switch_frames # <<>>
                THEN last_get.result = Last(switch_frames).engine
                ELSE /\ DefaultEngine(CONFIG).name \in DOMAIN ENGINES
                     /\ last_get.result = ENGINES[DefaultEngine(CONFIG).name])
    /\ [][\A n \in DOMAIN ENGINES : n \in DOMAIN ENGINES' /\ ENGINES'[n] = ENGINES[n]]_vars

\* Both engines are registered and get_engine(name), called inside a block
\* switched to another engine with other flags than the call that built the
\* name's engine, returns the registered engine without building one.
C20_Witness ==
    /\ last_get.called
    /\ last_get.name = NameRef("remote")
    /\ ~last_get.built
    /\ last_get.use_socket
    /\ Len(constructed) = 2
    /\ switch_frames # <<>>
    /\ Last(switch_frames).engine # last_get.result

\* ===================================================== savepoint ownership
\* C21 as the claim states it: the exit of a savepoint block pops and releases
\* only the stack entry the block pushed itself, so it never removes or
\* releases the entry of an enclosing block, also when nested blocks reuse a
\* name; and an entry that was not rolled back to is released by its own
\* block.
C21_ExitReleasesOwnEntryOnly ==
    last_exit.id # 0 =>
        /\ last_exit.released => last_exit.released_owner = last_exit.id
        /\ ~last_exit.rolled_back =>
              (last_exit.released /\ last_exit.released_owner = last_exit.id)

\* ============================================================= search path
RunSqlInSpecInit == QueryIdleInit /\ SavepointInit /\ EngineIdleInit /\ CallInit /\ PathInit

RunSqlInSpec == RunSqlInSpecInit /\ [][RunSqlInNext]_vars

\* C22 as the claim states it: run_sql_in(schema, sql) runs the query with the
\* search path set to schema and, whether the query succeeds or raises, leaves
\* the search path set to public: once the call is over the path never points
\* at schema.
C22_SearchPathLeftPublic ==
    /\ run_pc = "ran" => run_call.path_during = run_call.schema
    /\ last_run.finished =>
          /\ last_run.path_during = last_run.schema
          /\ last_run.path_after = "public"
          /\ last_run.path_after # last_run.schema

\* =================================================== merge_repository_lists
\* The longest list of repositories on either side.
MaxRepos == 2

\* resolve_optional: `not x` of an optional model.
Missing(x) == x = None

\* {**left, **right}.
MergeDicts(left, right) ==
    [k \in DOMAIN left \cup DOMAIN right |-> IF k \in DOMAIN right THEN right[k] ELSE left[k]]

\* merge_metadata on the fields left and right set (exclude_unset).
MergeMetadata(left, right) ==
    IF Missing(left) THEN right
    ELSE IF Missing(right) THEN left
    ELSE MergeDicts(left, right)

CredentialFields == {"credential_id", "credential"}

\* merge_external on the fields left and right set; right sets at most one of
\* the two credential fields.
MergeExternal(left, right) ==
    IF Missing(left) THEN right
    ELSE IF Missing(right) THEN left
    ELSE LET keep == IF DOMAIN right \cap CredentialFields # {}
                     THEN DOMAIN left \ CredentialFields
                     ELSE DOMAIN left
             left_d == [k \in keep |-> left[k]]
         IN  [k \in DOMAIN left_d \cup DOMAIN right |->
                 IF k \notin DOMAIN right THEN left_d[k]
                 ELSE IF k = "tables" /\ k \in DOMAIN left_d
                 THEN MergeDicts(left_d[k], right[k])
                 ELSE right[k]]

\* merge_repository.
MergeRepository(left, right) ==
    IF Missing(left) THEN right
    ELSE IF Missing(right) THEN left
    ELSE [namespace |-> left.namespace, repository |-> left.repository,
          metadata |-> MergeMetadata(left.metadata, right.metadata),
          external |-> MergeExternal(left.external, right.external)]

RepoKey(r) == <<r.namespace, r.repository>>

\* {(r.namespace, r.repository): r for r in repos}: the last repository of a
\* key wins.
ByRepo(repos) ==
    [k \in {RepoKey(repos[j]) : j \in 1..Len(repos)} |->
        repos[CHOOSE j \in 1..Len(repos) :
                 /\ RepoKey(repos[j]) = k
                 /\ \A i \in (j + 1)..Len(repos) : RepoKey(repos[i]) # k]]

\* dict.get(key).
Get(d, k) == IF k \in DOMAIN d THEN d[k] ELSE None

KeysInOrder(repos) == [j \in 1..Len(repos) |-> RepoKey(repos[j])]

RECURSIVE Filter(_, _)
Filter(seq, keep) ==
    IF seq = <<>> THEN <<>>
    ELSE (IF Head(seq) \in keep THEN <<Head(seq)>> ELSE <<>>) \o Filter(Tail(seq), keep)

\* merge_repository_lists.
MergeRepositoryLists(left, right) ==
    LET left_by_repo == ByRepo(left)
        right_by_repo == ByRepo(right)
        right_keys == KeysInOrder(right)
        all_repos == KeysInOrder(left)
                        \o Filter(right_keys,
                                  {right_keys[j] : j \in 1..Len(right)} \ DOMAIN left_by_repo)
        result == [j \in 1..Len(all_repos) |->
                      MergeRepository(Get(left_by_repo, all_repos[j]),
                                      Get(right_by_repo, all_repos[j]))]
    IN  SelectSeq(result, LAMBDA r : ~Missing(r))

\* The repositories of the calls: two keys, each with one of four contents.
Repositories ==
    {[namespace |-> k[1], repository |-> k[2], metadata |-> c.metadata,
      external |-> c.external] :
        k \in {<<"ns", "r1">>, <<"ns", "r2">>},
        c \in {[metadata |-> None, external |-> None],
               [metadata |-> [description |-> "a"],
                external |-> [credential_id |-> "c1", tables |-> [t1 |-> "x"]]],
               [metadata |-> [description |-> "b", topics |-> "t"],
                external |-> [credential |-> "c2", tables |-> [t1 |-> "y", t2 |-> "z"]]],
               [metadata |-> [topics |-> "u"], external |-> None]}}

RepositoryLists == UNION {[1..n -> Repositories] : n \in 0..MaxRepos}

MergeRepositoryListsCall(left, right) ==
    /\ fcall = NoCall
    /\ fcall' = [fn |-> "merge_repository_lists", left |-> left, right |-> right,
                 result |-> MergeRepositoryLists(left, right)]
    /\ UNCHANGED <<qvars, svars, evars, pvars>>

MergeSpecInit == QueryIdleInit /\ SavepointInit /\ EngineIdleInit /\ CallInit /\ PathIdleInit

MergeNext == \E left, right \in RepositoryLists : MergeRepositoryListsCall(left, right)

MergeSpec == MergeSpecInit /\ [][MergeNext]_vars

\* The keys of a list, each once, in the order of their first occurrence.
RECURSIVE DistinctKeys(_, _)
DistinctKeys(repos, seen) ==
    IF repos = <<>> THEN <<>>
    ELSE IF RepoKey(Head(repos)) \in seen THEN DistinctKeys(Tail(repos), seen)
    ELSE <<RepoKey(Head(repos))>>
             \o DistinctKeys(Tail(repos), seen \cup {RepoKey(Head(repos))})

\* C23 as the claim states it: merge_repository_lists(left, right) returns one
\* repository per distinct key of either list, left's keys in left order and
\* then the keys only right has in right order; a key of both lists yields the
\* merge of its two repositories, a key of one list yields its repository
\* unchanged; with an empty list on either side the result is the other list.
C23_MergeRepositoryLists ==
    fcall.fn = "merge_repository_lists" =>
        LET left == fcall.left
            right == fcall.right
            result == fcall.result
            lk == {RepoKey(left[j]) : j \in 1..Len(left)}
            rk == {RepoKey(right[j]) : j \in 1..Len(right)}
        IN  /\ KeysInOrder(result) = DistinctKeys(left, {}) \o DistinctKeys(right, lk)
            /\ \A j \in 1..Len(result) :
                  LET k == RepoKey(result[j])
                  IN  /\ (k \in lk /\ k \in rk) =>
                            \E a \in 1..Len(left), b \in 1..Len(right) :
                                /\ RepoKey(left[a]) = k /\ RepoKey(right[b]) = k
                                /\ result[j] = MergeRepository(left[a], right[b])
                      /\ (k \in lk /\ k \notin rk) =>
                            \E a \in 1..Len(left) : result[j] = left[a]
                      /\ (k \notin lk /\ k \in rk) =>
                            \E b \in 1..Len(right) : result[j] = right[b]
            /\ right = <<>> => result = left
            /\ left = <<>> => result = right

=========================================================================
